---- MODULE Spec2Model ----
(***************************************************************************)
(* Model of enforce/settings.py: the process-wide settings object          *)
(* _GLOBAL_SETTINGS, config / parse_config / apply_config / reset_config,  *)
(* and the Settings view that reads the global object.                     *)
(***************************************************************************)
EXTENDS Integers, Sequences, FiniteSets, TLC

(***************************************************************************)
(* Python values.  A dict is an ordered list of <<key, value>> items with  *)
(* distinct keys; iteration follows the list.                              *)
(***************************************************************************)
PyNone == [tag |-> "None"]
PyBool(b) == [tag |-> "bool", b |-> b]
PyStr(s) == [tag |-> "str", s |-> s]
PyInt(n) == [tag |-> "int", n |-> n]
PyDict(items) == [tag |-> "dict", items |-> items]

IsDict(v) == v.tag = "dict"

\* Python truth value of v (`if v:`, `x or y`, `not x`).
Truthy(v) ==
    CASE v.tag = "None" -> FALSE
      [] v.tag = "bool" -> v.b
      [] v.tag = "str"  -> v.s # ""
      [] v.tag = "int"  -> v.n # 0
      [] v.tag = "dict" -> v.items # <<>>

DictKeys(d) == {d.items[i][1] : i \in 1..Len(d.items)}
DictGet(d, k) == LET i == CHOOSE i \in 1..Len(d.items) : d.items[i][1] = k
                 IN  d.items[i][2]

(***************************************************************************)
(* ModeChoices: the enum of type checking modes, name -> value.            *)
(***************************************************************************)
ModeChoices == [invariant |-> 0, covariant |-> 1, contravariant |-> 2, bivariant |-> 3]
ModeNames == DOMAIN ModeChoices

(***************************************************************************)
(* utils.merge_dictionaries: every key of the defaults in the defaults'    *)
(* order (the update's value when it has the key, merged recursively when  *)
(* both values are dicts), followed by the keys only the update has.       *)
(***************************************************************************)
RECURSIVE merge_dictionaries(_, _)
merge_dictionaries(original, update) ==
    LET merged(i) ==
            LET k == original.items[i][1]
                dv == original.items[i][2]
            IN  IF k \notin DictKeys(update) THEN <<k, dv>>
                ELSE LET uv == DictGet(update, k)
                     IN  IF IsDict(dv) /\ IsDict(uv)
                         THEN <<k, merge_dictionaries(dv, uv)>>
                         ELSE <<k, uv>>
        known == [i \in 1..Len(original.items) |-> merged(i)]
        extra == SelectSeq(update.items, LAMBDA it : it[1] \notin DictKeys(original))
    IN  PyDict(known \o extra)

\* parse_config: the default update, overlaid with the caller's options.
default_options ==
    PyDict(<< <<"enabled", PyNone>>,
              <<"groups", PyDict(<< <<"set", PyDict(<<>>)>>,
                                    <<"disable_previous", PyBool(FALSE)>>,
                                    <<"enable_previous", PyBool(FALSE)>>,
                                    <<"clear_previous", PyBool(FALSE)>>,
                                    <<"default", PyNone>> >>)>>,
              <<"mode", PyNone>> >>)

parse_config(options) == merge_dictionaries(default_options, options)

(***************************************************************************)
(* GlobalSettingsObject: an open record, key -> value.  The `groups` dict  *)
(* is a function group name -> BOOLEAN.                                    *)
(***************************************************************************)
NoGroups == [n \in {} |-> TRUE]

GlobalSettingsObject ==
    [enabled |-> TRUE, default |-> TRUE, mode |-> "invariant", groups |-> NoGroups]

\* __setitem__ / __delitem__ on the settings object.
SetItem(G, key, value) ==
    [k \in DOMAIN G \cup {key} |-> IF k = key THEN value ELSE G[k]]
DelItem(G, key) == [k \in DOMAIN G \ {key} |-> G[k]]

\* reset_config: drop the keys that are not defaults, restore the non-None
\* defaults, clear the groups dict in place.
DefaultValueKeys == {"enabled", "default", "mode", "groups"}

RECURSIVE RemoveKeys(_, _)
RemoveKeys(G, keys) ==
    IF keys = {} THEN G
    ELSE LET k == CHOOSE k \in keys : TRUE
         IN  RemoveKeys(DelItem(G, k), keys \ {k})

\* Mutant: the reset that does not look for keys to remove.
reset_config_KeepsKeys(G) ==
    [SetItem(SetItem(SetItem(G, "enabled", TRUE), "default", TRUE), "mode", "invariant")
        EXCEPT !["groups"] = NoGroups]

reset_config(G) ==
    LET keys_to_remove == {key \in DOMAIN G : key \notin DefaultValueKeys}
        G1 == RemoveKeys(G, keys_to_remove)
        G2 == SetItem(SetItem(SetItem(G1, "enabled", TRUE), "default", TRUE),
                      "mode", "invariant")
    IN  [G2 EXCEPT !["groups"] = NoGroups]

(***************************************************************************)
(* apply_config.  Every loop is a fold over the dict's items; a raise ends *)
(* the fold and keeps what was written to the settings object before it.   *)
(***************************************************************************)
NoError == "ok"
ReservedGroupError == "KeyError: Cannot set 'default' group status"
UnknownGroupOptionError == "KeyError: Unknown option for groups"
InvalidModeError == "KeyError: Mode must be one of mode choices"
UnknownOptionError == "KeyError: Unknown option"
NotADictError == "AttributeError: no attribute 'items'"

\* Mutant: the `set` loop without the test for the reserved name.
RECURSIVE SetLoop_NoReserved(_, _, _)
SetLoop_NoReserved(items, j, group_update) ==
    IF j > Len(items) THEN [group_update |-> group_update, err |-> NoError]
    ELSE IF items[j][2] # PyNone
         THEN SetLoop_NoReserved(items, j + 1,
                                 (items[j][1] :> items[j][2].b) @@ group_update)
         ELSE SetLoop_NoReserved(items, j + 1, group_update)

\* for group_name, group_status in v.items(): ...   (lines 166-171)
RECURSIVE SetLoop(_, _, _)
SetLoop(items, j, group_update) ==
    IF j > Len(items) THEN [group_update |-> group_update, err |-> NoError]
    ELSE LET group_name == items[j][1]
             group_status == items[j][2]
         IN  IF group_name = "default"
             THEN [group_update |-> group_update, err |-> ReservedGroupError]
             ELSE IF group_status # PyNone
                  THEN SetLoop(items, j + 1,
                               (group_name :> group_status.b) @@ group_update)
                  ELSE SetLoop(items, j + 1, group_update)

\* for k, v in value.items(): ...   (lines 149-174)
RECURSIVE GroupsLoop(_, _, _, _, _)
GroupsLoop(G, value, i, group_update, previous_update) ==
    IF i > Len(value.items)
    THEN [G |-> G, group_update |-> group_update,
          previous_update |-> previous_update, err |-> NoError]
    ELSE LET k == value.items[i][1]
             v == value.items[i][2]
             stop(e) == [G |-> G, group_update |-> group_update,
                         previous_update |-> previous_update, err |-> e]
         IN  CASE k = "disable_previous" ->
                    GroupsLoop(G, value, i + 1, group_update,
                               IF Truthy(v) THEN previous_update \cup {"d"}
                                            ELSE previous_update)
               [] k = "enable_previous" ->
                    GroupsLoop(G, value, i + 1, group_update,
                               IF Truthy(v) THEN previous_update \cup {"e"}
                                            ELSE previous_update)
               [] k = "clear_previous" ->
                    GroupsLoop(G, value, i + 1, group_update,
                               IF Truthy(v) THEN previous_update \cup {"c"}
                                            ELSE previous_update)
               [] k = "default" ->
                    GroupsLoop(IF v # PyNone
                               THEN SetItem(G, "default", DictGet(value, "default").b)
                               ELSE G,
                               value, i + 1, group_update, previous_update)
               [] k = "set" ->
                    IF ~IsDict(v) THEN stop(NotADictError)
                    ELSE LET r == SetLoop(v.items, 1, group_update)
                         IN  IF r.err # NoError THEN stop(r.err)
                             ELSE GroupsLoop(G, value, i + 1, r.group_update,
                                             previous_update)
               [] OTHER -> stop(UnknownGroupOptionError)

\* Mutant: disable-all drops the groups instead of turning them off.
ApplyPrevious_DisableRemoves(groups, previous_update) ==
    LET g1 == IF "d" \in previous_update THEN NoGroups ELSE groups
        g2 == IF "e" \in previous_update
              THEN [n \in DOMAIN g1 |-> TRUE] ELSE g1
    IN  IF "c" \in previous_update THEN NoGroups ELSE g2

\* Mutant: enable-all applied before disable-all.
ApplyPrevious_EnableFirst(groups, previous_update) ==
    LET g1 == IF "e" \in previous_update
              THEN [n \in DOMAIN groups |-> TRUE] ELSE groups
        g2 == IF "d" \in previous_update
              THEN [n \in DOMAIN g1 |-> FALSE] ELSE g1
    IN  IF "c" \in previous_update THEN NoGroups ELSE g2

\* Mutant: the three flags as one if / elif / elif chain.
ApplyPrevious_Elif(groups, previous_update) ==
    IF "d" \in previous_update THEN [n \in DOMAIN groups |-> FALSE]
    ELSE IF "e" \in previous_update THEN [n \in DOMAIN groups |-> TRUE]
    ELSE IF "c" \in previous_update THEN NoGroups
    ELSE groups

\* if previous_update: disable, then enable, then clear   (lines 176-186)
ApplyPrevious(groups, previous_update) ==
    LET g1 == IF "d" \in previous_update
              THEN [n \in DOMAIN groups |-> FALSE] ELSE groups
        g2 == IF "e" \in previous_update
              THEN [n \in DOMAIN g1 |-> TRUE] ELSE g1
    IN  IF "c" \in previous_update THEN NoGroups ELSE g2

\* Mutant: the pending `set` overrides merged before the bulk flags.
ApplyGroups_SetFirst(G, value) ==
    IF ~IsDict(value) THEN [G |-> G, err |-> NotADictError]
    ELSE LET r == GroupsLoop(G, value, 1, NoGroups, {})
         IN  IF r.err # NoError THEN [G |-> r.G, err |-> r.err]
             ELSE [G |-> [r.G EXCEPT !["groups"] =
                             ApplyPrevious(r.group_update @@ @, r.previous_update)],
                   err |-> NoError]

\* the `groups` branch   (lines 140-188)
ApplyGroups(G, value) ==
    IF ~IsDict(value) THEN [G |-> G, err |-> NotADictError]
    ELSE LET r == GroupsLoop(G, value, 1, NoGroups, {})
         IN  IF r.err # NoError THEN [G |-> r.G, err |-> r.err]
             ELSE [G |-> [r.G EXCEPT !["groups"] =
                             r.group_update @@ ApplyPrevious(@, r.previous_update)],
                   err |-> NoError]

\* Mutant: a None mode puts the mode back to invariant.
ApplyMode_NoneResets(G, value) ==
    IF value = PyNone THEN [G |-> SetItem(G, "mode", "invariant"), err |-> NoError]
    ELSE IF value.tag = "str" /\ value.s \in ModeNames
         THEN [G |-> SetItem(G, "mode", value.s), err |-> NoError]
         ELSE [G |-> G, err |-> InvalidModeError]

\* Mutant: an unknown mode name falls back to invariant before the raise.
ApplyMode_Fallback(G, value) ==
    IF value = PyNone THEN [G |-> G, err |-> NoError]
    ELSE IF value.tag = "str" /\ value.s \in ModeNames
         THEN [G |-> SetItem(G, "mode", value.s), err |-> NoError]
         ELSE [G |-> SetItem(G, "mode", "invariant"), err |-> InvalidModeError]

\* the `mode` branch   (lines 190-195)
ApplyMode(G, value) ==
    IF value = PyNone THEN [G |-> G, err |-> NoError]
    ELSE IF value.tag = "str" /\ value.s \in ModeNames
         THEN [G |-> SetItem(G, "mode", value.s), err |-> NoError]
         ELSE [G |-> G, err |-> InvalidModeError]

\* Mutant: the enabled branch without its None test.
ApplyEnabled_NoNoneTest(G, value) ==
    [G |-> SetItem(G, "enabled", Truthy(value)), err |-> NoError]

\* the `enabled` branch   (lines 136-138)
ApplyEnabled(G, value) ==
    IF value = PyNone THEN [G |-> G, err |-> NoError]
    ELSE [G |-> SetItem(G, "enabled", value.b), err |-> NoError]

\* Mutant: the loop body without its final else.
ApplyOption_IgnoresUnknown(G, key, value) ==
    CASE key = "enabled" -> ApplyEnabled(G, value)
      [] key = "groups" -> ApplyGroups(G, value)
      [] key = "mode" -> ApplyMode(G, value)
      [] OTHER -> [G |-> G, err |-> NoError]

\* one pass of the loop body: the branch for `key`   (lines 136-197)
ApplyOption(G, key, value) ==
    CASE key = "enabled" -> ApplyEnabled(G, value)
      [] key = "groups" -> ApplyGroups(G, value)
      [] key = "mode" -> ApplyMode(G, value)
      [] OTHER -> [G |-> G, err |-> UnknownOptionError]

\* for key, value in options.items(): ...   (line 135)
RECURSIVE OptionsLoop(_, _, _)
OptionsLoop(G, items, i) ==
    IF i > Len(items) THEN [G |-> G, err |-> NoError]
    ELSE LET r == ApplyOption(G, items[i][1], items[i][2])
         IN  IF r.err # NoError THEN r ELSE OptionsLoop(r.G, items, i + 1)

\* Mutant: a failing call puts the settings back as they were.
apply_config_RollsBack(G, options, reset) ==
    IF reset THEN [G |-> reset_config(G), err |-> NoError]
    ELSE IF options # PyNone
         THEN LET r == OptionsLoop(G, options.items, 1)
              IN  IF r.err # NoError THEN [G |-> G, err |-> r.err] ELSE r
    ELSE [G |-> G, err |-> NoError]

\* Mutant: the options looked at before the reset flag.
apply_config_OptionsFirst(G, options, reset) ==
    IF options # PyNone THEN OptionsLoop(G, options.items, 1)
    ELSE IF reset THEN [G |-> reset_config(G), err |-> NoError]
    ELSE [G |-> G, err |-> NoError]

\* apply_config(options, reset); options is PyNone or a dict.
apply_config(G, options, reset) ==
    IF reset THEN [G |-> reset_config(G), err |-> NoError]
    ELSE IF options # PyNone THEN OptionsLoop(G, options.items, 1)
    ELSE [G |-> G, err |-> NoError]

\* config(options, reset=...)
config(G, options, reset) ==
    LET parsed_config == IF ~reset THEN parse_config(options) ELSE PyNone
    IN  apply_config(G, parsed_config, reset)

(***************************************************************************)
(* Settings: a view is [group, _enabled]; _enabled is PyNone or a PyBool.  *)
(***************************************************************************)
Settings__init__(enabled, group) ==
    [group |-> IF Truthy(group) THEN group.s ELSE "default", _enabled |-> enabled]

\* Mutant: the local override looked at before the global switch.
Settings_enabled_LocalFirst(G, self) ==
    IF self._enabled # PyNone THEN self._enabled.b
    ELSE IF ~G["enabled"] THEN FALSE
    ELSE IF self.group \in DOMAIN G["groups"] THEN G["groups"][self.group]
    ELSE FALSE

\* Mutant: the group override looked at before the local override.
Settings_enabled_GroupFirst(G, self) ==
    IF ~G["enabled"] THEN FALSE
    ELSE IF self.group \in DOMAIN G["groups"] THEN G["groups"][self.group]
    ELSE IF self._enabled = PyNone THEN FALSE
    ELSE self._enabled.b

Settings_enabled(G, self) ==
    IF ~G["enabled"] THEN FALSE
    ELSE IF self._enabled = PyNone
         THEN IF self.group \in DOMAIN G["groups"] THEN G["groups"][self.group]
              ELSE FALSE
         ELSE self._enabled.b

Settings_set_enabled(self, value) == [self EXCEPT !._enabled = value]

\* `mode or ModeChoices.invariant`: an enum member is always true.
Settings_mode(G) == G["mode"]
Settings_covariant(G) == G["mode"] \in {"covariant", "bivariant"}
\* Mutant: contravariant tested against the wrong pair of modes.
Settings_contravariant_WrongPair(G) == G["mode"] \in {"contravariant", "covariant"}
Settings_contravariant(G) == G["mode"] \in {"contravariant", "bivariant"}
Settings__bool__(G, self) == Settings_enabled(G, self)

(***************************************************************************)
(* State: the module global _GLOBAL_SETTINGS, the Settings objects the     *)
(* callers hold, and the caller's position: idle, or just back from a call *)
(* with a record of it (its arguments, the state it started from, the      *)
(* exception it raised).  reconfigured is a history variable: a call has    *)
(* changed the settings since the newest Settings object was constructed.  *)
(***************************************************************************)
VARIABLES GLOBAL_SETTINGS, views, last, reconfigured

vars == <<GLOBAL_SETTINGS, views, last, reconfigured>>

\* Bounds of the explored inputs.
MaxSet == 2        \* entries in one `set` dict
MaxViews == 2      \* Settings objects alive at once

Groups == {"g", "h"}
ExtraKeys == {"stash"}

Absent == [tag |-> "absent"]

\* The dict with the keys of `order` that `val` does not leave out.
MkDict(order, val) ==
    PyDict(SelectSeq([i \in 1..Len(order) |-> <<order[i], val[order[i]]>>],
                     LAMBDA it : it[2] # Absent))

Present(val) == {k \in DOMAIN val : val[k] # Absent}

Reverse(seq) == [i \in 1..Len(seq) |-> seq[Len(seq) + 1 - i]]

OptBool == {PyNone, PyBool(TRUE), PyBool(FALSE)}

\* `set` dicts: group -> bool | None, possibly naming the reserved group.
SetOrder == <<"g", "default", "h">>
SetVals == [g |-> OptBool \cup {Absent}, h |-> OptBool \cup {Absent},
            default |-> {Absent, PyNone, PyBool(TRUE)}]
SetDicts ==
    {d \in {MkDict(SetOrder, [g |-> vg, default |-> vd, h |-> vh]) :
                vg \in SetVals.g, vd \in SetVals.default, vh \in SetVals.h} :
        Len(d.items) <= MaxSet}

\* `groups` dicts: every combination of the bulk flags, with a `set` dict and
\* a default, keys in the order of parse_config's defaults or reversed.
GroupsOrder == <<"set", "disable_previous", "enable_previous", "clear_previous",
                 "default">>
FlagVals == {Absent, PyBool(TRUE)}
DefaultVals == {Absent, PyBool(TRUE), PyBool(FALSE)}
GroupsDicts(order) ==
    {MkDict(order, [set |-> vs, disable_previous |-> vd, enable_previous |-> ve,
                    clear_previous |-> vc, default |-> vdef]) :
        vs \in SetDicts \cup {Absent}, vd \in FlagVals, ve \in FlagVals,
        vc \in FlagVals, vdef \in DefaultVals}

OnlyGroups(gd) == PyDict(<< <<"groups", gd>> >>)

\* Calls that carry only a `groups` option.
GroupsOptions == {OnlyGroups(gd) : gd \in GroupsDicts(GroupsOrder)}
GroupsApplyOptions ==
    {OnlyGroups(gd) : gd \in GroupsDicts(GroupsOrder) \cup GroupsDicts(Reverse(GroupsOrder))}

\* Calls that combine the top-level options, with a few `groups` dicts.
SomeGroupsDicts ==
    { PyNone,
      PyDict(<< <<"set", PyDict(<< <<"g", PyBool(TRUE)>> >>)>> >>),
      PyDict(<< <<"set", PyDict(<< <<"default", PyBool(TRUE)>> >>)>>,
                <<"default", PyBool(FALSE)>> >>),
      PyDict(<< <<"clear_previous", PyBool(TRUE)>> >>),
      PyDict(<< <<"default", PyBool(FALSE)>> >>),
      PyDict(<< <<"verbose", PyInt(1)>>, <<"set", PyDict(<< <<"h", PyBool(FALSE)>> >>)>> >>),
      PyDict(<< <<"disable_previous", PyNone>>, <<"enable_previous", PyBool(FALSE)>>,
                <<"set", PyDict(<< <<"h", PyNone>> >>)>>, <<"default", PyNone>> >>) }
TopOrder == <<"enabled", "groups", "mode", "bogus">>
ModeVals == {Absent, PyNone} \cup {PyStr(m) : m \in ModeNames \cup {"univariant"}}
TopDicts(order) ==
    {MkDict(order, [enabled |-> ve, groups |-> vg, mode |-> vm, bogus |-> vb]) :
        ve \in OptBool \cup {Absent}, vg \in SomeGroupsDicts \cup {Absent},
        vm \in ModeVals, vb \in {Absent, PyInt(1)}}
ConfigOptions == TopDicts(TopOrder)
ApplyOptions == {PyNone} \cup TopDicts(TopOrder) \cup TopDicts(Reverse(TopOrder))

\* Options passed along with reset=True.
ResetOptions ==
    { PyNone,
      PyDict(<< <<"bogus", PyInt(1)>> >>),
      PyDict(<< <<"mode", PyStr("univariant")>> >>),
      PyDict(<< <<"enabled", PyBool(FALSE)>>, <<"mode", PyStr("covariant")>> >>),
      OnlyGroups(PyDict(<< <<"set", PyDict(<< <<"default", PyBool(TRUE)>> >>)>> >>)),
      OnlyGroups(PyDict(<< <<"set", PyDict(<< <<"g", PyBool(TRUE)>> >>)>> >>)) }

\* The record of a call: self is the index of the Settings object it was made
\* on (0: none), value the value passed to or read from that object.
Call(op, options, reset, pre, err) ==
    [op |-> op, options |-> options, reset |-> reset, pre |-> pre, err |-> err,
     self |-> 0, value |-> PyNone]
ViewCall(op, self, value, pre) ==
    [op |-> op, options |-> PyNone, reset |-> FALSE, pre |-> pre, err |-> NoError,
     self |-> self, value |-> value]

Idle == Call("idle", PyNone, FALSE, GlobalSettingsObject, NoError)

Init ==
    /\ GLOBAL_SETTINGS = GlobalSettingsObject
    /\ views = <<>>
    /\ last = Idle
    /\ reconfigured = FALSE

\* A call that leaves the settings as G while Settings objects are held.
Reconfigure(G) ==
    reconfigured' = (reconfigured \/ (views # <<>> /\ G # GLOBAL_SETTINGS))

\* config(options): parse, then apply.
Config(options) ==
    LET r == config(GLOBAL_SETTINGS, options, FALSE)
    IN  /\ last = Idle
        /\ GLOBAL_SETTINGS' = r.G
        /\ last' = Call("config", options, FALSE, GLOBAL_SETTINGS, r.err)
        /\ Reconfigure(r.G)
        /\ UNCHANGED views

\* config(options, reset=True).
ConfigReset(options) ==
    LET r == config(GLOBAL_SETTINGS, options, TRUE)
    IN  /\ last = Idle
        /\ GLOBAL_SETTINGS' = r.G
        /\ last' = Call("config", options, TRUE, GLOBAL_SETTINGS, r.err)
        /\ Reconfigure(r.G)
        /\ UNCHANGED views

\* apply_config(options) called directly, with the caller's own dict.
ApplyConfig(options) ==
    LET r == apply_config(GLOBAL_SETTINGS, options, FALSE)
    IN  /\ last = Idle
        /\ GLOBAL_SETTINGS' = r.G
        /\ last' = Call("apply_config", options, FALSE, GLOBAL_SETTINGS, r.err)
        /\ Reconfigure(r.G)
        /\ UNCHANGED views

\* apply_config(options, reset=True) called directly.
ApplyReset(options) ==
    LET r == apply_config(GLOBAL_SETTINGS, options, TRUE)
    IN  /\ last = Idle
        /\ GLOBAL_SETTINGS' = r.G
        /\ last' = Call("apply_config", options, TRUE, GLOBAL_SETTINGS, r.err)
        /\ Reconfigure(r.G)
        /\ UNCHANGED views

\* Other code keeps a key of its own in the settings object.
Stash(key) ==
    /\ last = Idle
    /\ key \notin DOMAIN GLOBAL_SETTINGS
    /\ GLOBAL_SETTINGS' = SetItem(GLOBAL_SETTINGS, key, PyInt(1))
    /\ last' = Call("__setitem__", PyNone, FALSE, GLOBAL_SETTINGS, NoError)
    /\ UNCHANGED <<views, reconfigured>>

\* The caller takes the call's outcome and goes on.
Return ==
    /\ last # Idle
    /\ last' = Idle
    /\ UNCHANGED <<GLOBAL_SETTINGS, views, reconfigured>>

Next ==
    \/ \E o \in ConfigOptions : Config(o)
    \/ \E o \in ResetOptions : ConfigReset(o)
    \/ \E o \in ApplyOptions : ApplyConfig(o)
    \/ \E o \in ResetOptions : ApplyReset(o)
    \/ \E key \in ExtraKeys : Stash(key)
    \/ Return

Spec == Init /\ [][Next]_vars

\* The same operations, driven by the `groups` option in full.
NextGroups ==
    \/ \E o \in GroupsOptions : Config(o)
    \/ \E o \in ResetOptions : ConfigReset(o)
    \/ \E o \in GroupsApplyOptions : ApplyConfig(o)
    \/ \E key \in ExtraKeys : Stash(key)
    \/ Return

SpecGroups == Init /\ [][NextGroups]_vars

\* Calls made while Settings objects are alive: one option at a time.
ViewOptions ==
    {PyDict(<< <<"enabled", PyBool(b)>> >>) : b \in BOOLEAN}
    \cup {PyDict(<< <<"mode", PyStr(m)>> >>) : m \in ModeNames \cup {"univariant"}}
    \cup {OnlyGroups(PyDict(<< <<"default", PyBool(b)>> >>)) : b \in BOOLEAN}
    \cup {OnlyGroups(PyDict(<< <<"set", PyDict(<< <<n, PyBool(b)>> >>)>> >>)) :
             n \in Groups, b \in BOOLEAN}
    \cup {OnlyGroups(PyDict(<< <<flag, PyBool(TRUE)>> >>)) :
             flag \in {"disable_previous", "enable_previous", "clear_previous"}}

GroupArgs == {PyNone, PyStr("")} \cup {PyStr(n) : n \in Groups}

\* s = Settings(enabled, group)
NewSettings(enabled, group) ==
    /\ last = Idle
    /\ Len(views) < MaxViews
    /\ views' = Append(views, Settings__init__(enabled, group))
    /\ last' = ViewCall("Settings", Len(views) + 1, enabled, GLOBAL_SETTINGS)
    /\ reconfigured' = FALSE
    /\ UNCHANGED GLOBAL_SETTINGS

\* Mutant: assigning enabled on a Settings object also sets the global switch.
SetEnabled_WritesGlobal(i, value) ==
    /\ last = Idle
    /\ views' = [views EXCEPT ![i] = Settings_set_enabled(@, value)]
    /\ last' = ViewCall("enabled.setter", i, value, GLOBAL_SETTINGS)
    /\ GLOBAL_SETTINGS' = SetItem(GLOBAL_SETTINGS, "enabled", value.b)
    /\ UNCHANGED reconfigured

\* s.enabled = value
SetEnabled(i, value) ==
    /\ last = Idle
    /\ views' = [views EXCEPT ![i] = Settings_set_enabled(@, value)]
    /\ last' = ViewCall("enabled.setter", i, value, GLOBAL_SETTINGS)
    /\ UNCHANGED <<GLOBAL_SETTINGS, reconfigured>>

\* Mutant: the properties read a copy of the settings taken at import.
ReadSettings_AtImport(i) ==
    /\ last = Idle
    /\ last' = ViewCall("read", i,
                        [enabled |-> Settings_enabled(GlobalSettingsObject, views[i]),
                         mode |-> Settings_mode(GlobalSettingsObject),
                         covariant |-> Settings_covariant(GlobalSettingsObject),
                         contravariant |-> Settings_contravariant(GlobalSettingsObject),
                         bool |-> Settings__bool__(GlobalSettingsObject, views[i])],
                        GLOBAL_SETTINGS)
    /\ UNCHANGED <<GLOBAL_SETTINGS, views, reconfigured>>

\* s.enabled, s.mode, s.covariant, s.contravariant, bool(s)
ReadSettings(i) ==
    /\ last = Idle
    /\ last' = ViewCall("read", i,
                        [enabled |-> Settings_enabled(GLOBAL_SETTINGS, views[i]),
                         mode |-> Settings_mode(GLOBAL_SETTINGS),
                         covariant |-> Settings_covariant(GLOBAL_SETTINGS),
                         contravariant |-> Settings_contravariant(GLOBAL_SETTINGS),
                         bool |-> Settings__bool__(GLOBAL_SETTINGS, views[i])],
                        GLOBAL_SETTINGS)
    /\ UNCHANGED <<GLOBAL_SETTINGS, views, reconfigured>>

\* The same operations, with Settings objects held across the calls.
NextViews ==
    \/ \E o \in ViewOptions : Config(o)
    \/ ConfigReset(PyNone)
    \/ \E e \in OptBool, g \in GroupArgs : NewSettings(e, g)
    \/ \E i \in 1..Len(views), v \in BOOLEAN : SetEnabled(i, PyBool(v))
    \/ \E i \in 1..Len(views) : ReadSettings(i)
    \/ Return

SpecViews == Init /\ [][NextViews]_vars

(***************************************************************************)
(* Properties.                                                             *)
(***************************************************************************)
\* The value the dict d gives the key k, Absent when it has none.
Opt(d, k) == IF IsDict(d) /\ k \in DictKeys(d) THEN DictGet(d, k) ELSE Absent
FlagOn(d, k) == Opt(d, k) # Absent /\ Truthy(Opt(d, k))

\* The caller is back from config(options) or apply_config(options), no reset.
Called == last.op \in {"config", "apply_config"} /\ ~last.reset /\ IsDict(last.options)
Succeeded == Called /\ last.err = NoError
WasReset == last.op \in {"config", "apply_config"} /\ last.reset

LastGroups == Opt(last.options, "groups")
LastSet == Opt(LastGroups, "set")
\* The dict apply_config iterated in the last call.
LastIterated == IF last.op = "config" THEN parse_config(last.options) ELSE last.options

\* Every Settings object a caller can construct.
AllViews == {Settings__init__(e, g) : e \in OptBool, g \in GroupArgs}
HeldViews == {views[i] : i \in 1..Len(views)}

\* C1: config(reset=True) leaves exactly the four default keys with their
\* default values, whatever the state before (extra keys, failed calls), so
\* resetting again changes nothing.
C1_ResetRestoresDefaults ==
    WasReset =>
        /\ last.err = NoError
        /\ DOMAIN GLOBAL_SETTINGS = {"enabled", "default", "mode", "groups"}
        /\ GLOBAL_SETTINGS["enabled"] = TRUE
        /\ GLOBAL_SETTINGS["default"] = TRUE
        /\ GLOBAL_SETTINGS["mode"] = "invariant"
        /\ GLOBAL_SETTINGS["groups"] = NoGroups
        /\ config(GLOBAL_SETTINGS, PyNone, TRUE).G = GLOBAL_SETTINGS

C1_Witness ==
    /\ WasReset
    /\ "stash" \in DOMAIN last.pre
    /\ DOMAIN last.pre["groups"] # {}
    /\ ~last.pre["enabled"]
    /\ ~last.pre["default"]
    /\ last.pre["mode"] # "invariant"

\* C2: with the global switch on, a Settings object without a local override
\* reads its group's override when there is one and the global default
\* otherwise.
C2_FallsBackToDefault ==
    (last.op = "read" /\ GLOBAL_SETTINGS["enabled"]
        /\ views[last.self]._enabled = PyNone) =>
        last.value.enabled =
            IF views[last.self].group \in DOMAIN GLOBAL_SETTINGS["groups"]
            THEN GLOBAL_SETTINGS["groups"][views[last.self].group]
            ELSE GLOBAL_SETTINGS["default"]

\* C3: while the global switch is off every Settings object reads disabled,
\* whatever its group, its local override, the group overrides, the default.
C3_KillSwitch ==
    ~GLOBAL_SETTINGS["enabled"] =>
        /\ \A s \in AllViews \cup HeldViews : Settings_enabled(GLOBAL_SETTINGS, s) = FALSE
        /\ last.op = "read" => last.value.enabled = FALSE /\ last.value.bool = FALSE

C3_Witness ==
    /\ ~GLOBAL_SETTINGS["enabled"]
    /\ GLOBAL_SETTINGS["default"]
    /\ last.op = "read"
    /\ views[last.self]._enabled = PyBool(TRUE)
    /\ views[last.self].group \in DOMAIN GLOBAL_SETTINGS["groups"]
    /\ GLOBAL_SETTINGS["groups"][views[last.self].group]
    /\ last.value.enabled = FALSE

\* C4: with the global switch on, a held Settings object with a local
\* override reads that override whatever the later calls made of its group
\* and of the default; one without reads the override of its group.
C4_LocalOverrideWins ==
    GLOBAL_SETTINGS["enabled"] =>
        \A i \in 1..Len(views) :
            /\ views[i]._enabled # PyNone =>
                   Settings_enabled(GLOBAL_SETTINGS, views[i]) = views[i]._enabled.b
            /\ (views[i]._enabled = PyNone
                    /\ views[i].group \in DOMAIN GLOBAL_SETTINGS["groups"]) =>
                   Settings_enabled(GLOBAL_SETTINGS, views[i])
                       = GLOBAL_SETTINGS["groups"][views[i].group]

C4_Witness ==
    /\ Succeeded
    /\ LastSet = PyDict(<< <<"g", PyBool(TRUE)>> >>)
    /\ GLOBAL_SETTINGS["enabled"]
    /\ "g" \notin DOMAIN last.pre["groups"]
    /\ views = <<[group |-> "g", _enabled |-> PyBool(FALSE)]>>
    /\ ~Settings_enabled(GLOBAL_SETTINGS, views[1])
    /\ Settings_enabled(GLOBAL_SETTINGS, Settings__init__(PyNone, PyStr("g")))

\* The group names the last call's `set` dict gives a value that is not None.
SetNames == IF IsDict(LastSet)
            THEN {n \in DictKeys(LastSet) : DictGet(LastSet, n) # PyNone}
            ELSE {}
SetKeys == IF IsDict(LastSet) THEN DictKeys(LastSet) ELSE {}

\* C5: after a successful call every group that `set` maps to a value has
\* that value, whatever bulk flags the call carries; with disable_previous
\* alone every earlier group that `set` does not name is false.
C5_SetWinsOverFlags ==
    Succeeded =>
        /\ \A n \in SetNames :
               /\ n \in DOMAIN GLOBAL_SETTINGS["groups"]
               /\ GLOBAL_SETTINGS["groups"][n] = DictGet(LastSet, n).b
        /\ (/\ FlagOn(LastGroups, "disable_previous")
            /\ ~FlagOn(LastGroups, "enable_previous")
            /\ ~FlagOn(LastGroups, "clear_previous")) =>
               \A n \in DOMAIN last.pre["groups"] \ SetKeys :
                   /\ n \in DOMAIN GLOBAL_SETTINGS["groups"]
                   /\ GLOBAL_SETTINGS["groups"][n] = FALSE

C5_Witness ==
    /\ Succeeded
    /\ last.op = "config"
    /\ LastSet = PyDict(<< <<"g", PyBool(TRUE)>> >>)
    /\ FlagOn(LastGroups, "disable_previous")
    /\ ~FlagOn(LastGroups, "enable_previous")
    /\ ~FlagOn(LastGroups, "clear_previous")
    /\ last.pre["groups"] = [n \in {"g", "h"} |-> n = "h"]
    /\ GLOBAL_SETTINGS["groups"] = [n \in {"g", "h"} |-> n = "g"]

\* C6: a successful call with clear_previous and nothing in `set` leaves no
\* group override, whatever the groups before and the other two flags.
C6_ClearDominates ==
    (Succeeded /\ FlagOn(LastGroups, "clear_previous") /\ SetKeys = {}) =>
        GLOBAL_SETTINGS["groups"] = NoGroups

C6_Witness ==
    /\ Succeeded
    /\ FlagOn(LastGroups, "clear_previous")
    /\ FlagOn(LastGroups, "enable_previous")
    /\ FlagOn(LastGroups, "disable_previous")
    /\ SetKeys = {}
    /\ DOMAIN last.pre["groups"] = {"g", "h"}
    /\ GLOBAL_SETTINGS["groups"] = NoGroups

\* C7: a call whose `set` names the group 'default' raises the reserved-group
\* error and leaves the groups and the default as they were, whatever else
\* the groups dict carries and in whatever order its keys come.
C7_ReservedGroupRejected ==
    (Called /\ "default" \in SetKeys) =>
        /\ last.err = ReservedGroupError
        /\ GLOBAL_SETTINGS["groups"] = last.pre["groups"]
        /\ GLOBAL_SETTINGS["default"] = last.pre["default"]

\* C8: a call whose mode is a string that names no mode fails, and the
\* global mode is what it was before the call.
BadMode == LET m == Opt(last.options, "mode")
           IN  m # Absent /\ m.tag = "str" /\ m.s \notin ModeNames
C8_InvalidModeKeepsMode ==
    (Called /\ BadMode) =>
        /\ last.err # NoError
        /\ GLOBAL_SETTINGS["mode"] = last.pre["mode"]

C8_Witness ==
    /\ Called /\ BadMode
    /\ last.err = InvalidModeError
    /\ last.pre["mode"] = "bivariant"
    /\ GLOBAL_SETTINGS["mode"] = "bivariant"
    /\ GLOBAL_SETTINGS["enabled"] # last.pre["enabled"]

\* C9 as stated: a call with a top-level key outside {enabled, mode, groups}
\* fails with the unknown-option error.
UnknownKeys == DictKeys(last.options) \ {"enabled", "mode", "groups"}
C9_UnknownOptionError ==
    (Called /\ UnknownKeys # {}) => last.err = UnknownOptionError

\* C9, amended: such a call fails; the error is the unknown-option error
\* unless a key iterated before the unknown one raised first, and the state
\* is the one the keys iterated before the unknown one left.
BeforeUnknown ==
    LET items == LastIterated.items
        i == CHOOSE i \in 1..Len(items) :
                 /\ items[i][1] \notin {"enabled", "mode", "groups"}
                 /\ \A j \in 1..(i - 1) : items[j][1] \in {"enabled", "mode", "groups"}
    IN  OptionsLoop(last.pre, SubSeq(items, 1, i - 1), 1)
C9_UnknownOptionFails ==
    (Called /\ UnknownKeys # {}) =>
        /\ last.err # NoError
        /\ last.err = IF BeforeUnknown.err = NoError THEN UnknownOptionError
                      ELSE BeforeUnknown.err
        /\ GLOBAL_SETTINGS = BeforeUnknown.G

C9_Witness ==
    /\ last.op = "config"
    /\ last.options = PyDict(<< <<"bogus", PyInt(1)>> >>)
    /\ last.err = UnknownOptionError
    /\ GLOBAL_SETTINGS = last.pre
    /\ GLOBAL_SETTINGS # GlobalSettingsObject

\* C10: after a successful call with mode name m every Settings object reads
\* mode m, covariant iff m is covariant or bivariant, contravariant iff m is
\* contravariant or bivariant; the global mode changes in no call but a
\* reset or one that carries a mode name.
GoodMode == LET m == Opt(last.options, "mode")
            IN  m # Absent /\ m.tag = "str" /\ m.s \in ModeNames
C10_ModeRoundTrip ==
    /\ (Succeeded /\ GoodMode) =>
           LET m == Opt(last.options, "mode").s
           IN  /\ Settings_mode(GLOBAL_SETTINGS) = m
               /\ ModeChoices[Settings_mode(GLOBAL_SETTINGS)] = ModeChoices[m]
               /\ Settings_covariant(GLOBAL_SETTINGS) = (ModeChoices[m] \in {1, 3})
               /\ Settings_contravariant(GLOBAL_SETTINGS) = (ModeChoices[m] \in {2, 3})
    /\ (last.op # "idle" /\ GLOBAL_SETTINGS["mode"] # last.pre["mode"]) =>
           \/ WasReset
           \/ Called /\ GoodMode

C10_Witness ==
    /\ Succeeded
    /\ last.op = "config"
    /\ Opt(last.options, "mode") = PyStr("bivariant")
    /\ last.pre["mode"] = "covariant"
    /\ Settings_mode(GLOBAL_SETTINGS) = "bivariant"
    /\ Settings_covariant(GLOBAL_SETTINGS)
    /\ Settings_contravariant(GLOBAL_SETTINGS)

\* C11: with reset=True only the reset runs: the options are neither parsed
\* nor applied, so no error is raised whatever they hold and the state is the
\* default state, the one a reset without options gives.
C11_ResetIgnoresOptions ==
    (WasReset /\ last.options # PyNone) =>
        /\ last.err = NoError
        /\ GLOBAL_SETTINGS = GlobalSettingsObject
        /\ GLOBAL_SETTINGS = config(last.pre, PyNone, TRUE).G

C11_Witness ==
    /\ WasReset
    /\ last.options \in {PyDict(<< <<"bogus", PyInt(1)>> >>),
                         PyDict(<< <<"mode", PyStr("univariant")>> >>)}
    /\ last.pre["mode"] = "covariant"
    /\ ~last.pre["enabled"]
    /\ "stash" \in DOMAIN last.pre
    /\ last.err = NoError
    /\ GLOBAL_SETTINGS = GlobalSettingsObject

\* The last call's options ask for nothing: enabled, mode and groups.default
\* absent or None, no bulk flag true, `set` empty or all None, no other key.
Unset(v) == v \in {Absent, PyNone}
AsksNothing ==
    /\ Unset(Opt(last.options, "enabled"))
    /\ Unset(Opt(last.options, "mode"))
    /\ UnknownKeys = {}
    /\ \/ LastGroups = Absent
       \/ /\ IsDict(LastGroups)
          /\ DictKeys(LastGroups) \subseteq {"set", "disable_previous", "enable_previous",
                                            "clear_previous", "default"}
          /\ Unset(Opt(LastGroups, "default"))
          /\ \A k \in {"disable_previous", "enable_previous", "clear_previous"} :
                 ~FlagOn(LastGroups, k)
          /\ \/ LastSet = Absent
             \/ IsDict(LastSet) /\ SetNames = {} /\ "default" \notin SetKeys

\* C12: a call whose options are all absent or None succeeds and leaves
\* every key of the settings object, the extra ones included, as it was.
C12_NoneChangesNothing ==
    (Called /\ AsksNothing) =>
        /\ last.err = NoError
        /\ GLOBAL_SETTINGS = last.pre

C12_Witness ==
    /\ Called /\ AsksNothing
    /\ last.op = "config"
    /\ Opt(last.options, "enabled") = PyNone
    /\ Opt(last.options, "mode") = PyNone
    /\ Opt(LastGroups, "default") = PyNone
    /\ Opt(LastGroups, "disable_previous") = PyNone
    /\ LastSet = PyDict(<< <<"h", PyNone>> >>)
    /\ "stash" \in DOMAIN last.pre
    /\ ~last.pre["enabled"]
    /\ ~last.pre["default"]
    /\ last.pre["mode"] = "bivariant"
    /\ DOMAIN last.pre["groups"] # {}
    /\ GLOBAL_SETTINGS = last.pre

\* C13: whatever calls were made, failed ones and resets included, the
\* settings object has a `groups` entry, each of its values is a boolean,
\* and the reserved name 'default' is not one of its keys.
C13_GroupsWellFormed ==
    /\ "groups" \in DOMAIN GLOBAL_SETTINGS
    /\ \A n \in DOMAIN GLOBAL_SETTINGS["groups"] :
           /\ n # "default"
           /\ GLOBAL_SETTINGS["groups"][n] \in BOOLEAN

\* A call is refused for naming 'default' in `set`, after an entry for
\* another group and with a bulk flag on, from a state that has groups.
C13_Witness ==
    /\ Called
    /\ last.err = ReservedGroupError
    /\ Opt(LastSet, "g") = PyBool(TRUE)
    /\ FlagOn(LastGroups, "clear_previous")
    /\ last.pre["groups"] = ("g" :> FALSE) @@ ("h" :> TRUE)
    /\ GLOBAL_SETTINGS["groups"] = last.pre["groups"]

\* The last call's options with the keys of its `groups` dict in the
\* opposite order.
GroupsReversed == OnlyGroups(PyDict(Reverse(LastGroups.items)))
PositionOf(d, k) == CHOOSE i \in 1..Len(d.items) : d.items[i][1] = k

\* C14: after a successful call with disable_previous and enable_previous
\* both true and clear_previous not, every group that existed before and
\* that `set` gives no value is true; and a successful groups-only call
\* leaves the same state as the call with the groups keys listed in the
\* opposite order.
C14_FixedFlagOrder ==
    /\ (Succeeded /\ IsDict(LastGroups)
          /\ FlagOn(LastGroups, "disable_previous")
          /\ FlagOn(LastGroups, "enable_previous")
          /\ ~FlagOn(LastGroups, "clear_previous")) =>
           /\ DOMAIN last.pre["groups"] \subseteq DOMAIN GLOBAL_SETTINGS["groups"]
           /\ \A n \in DOMAIN last.pre["groups"] \ SetNames :
                  GLOBAL_SETTINGS["groups"][n] = TRUE
    /\ (Succeeded /\ IsDict(LastGroups) /\ last.options = OnlyGroups(LastGroups)) =>
           LET r == apply_config(last.pre, GroupsReversed, FALSE)
           IN  r.err = NoError /\ r.G = GLOBAL_SETTINGS

\* apply_config with enable_previous listed before disable_previous, on a
\* state whose groups are false: the group `set` does not name ends true.
C14_Witness ==
    /\ Succeeded
    /\ last.op = "apply_config"
    /\ FlagOn(LastGroups, "disable_previous")
    /\ FlagOn(LastGroups, "enable_previous")
    /\ ~FlagOn(LastGroups, "clear_previous")
    /\ PositionOf(LastGroups, "enable_previous") < PositionOf(LastGroups, "disable_previous")
    /\ LastSet = PyDict(<< <<"h", PyBool(FALSE)>> >>)
    /\ last.pre["groups"] = ("g" :> FALSE) @@ ("h" :> TRUE)
    /\ GLOBAL_SETTINGS["groups"] = ("g" :> TRUE) @@ ("h" :> FALSE)

\* C19: a call without a true clear_previous, failed or not, keeps every
\* group name that was there; a name that was not there is there afterwards
\* only if `set` gives it a value; and whenever a name is gone the call was
\* a reset or carried a true clear_previous.
C19_GroupNamesKept ==
    LET before == DOMAIN last.pre["groups"]
        after == DOMAIN GLOBAL_SETTINGS["groups"]
    IN  /\ (Called /\ ~FlagOn(LastGroups, "clear_previous")) => before \subseteq after
        /\ Called => (after \ before) \subseteq SetNames
        /\ (last # Idle /\ ~(before \subseteq after)) =>
               \/ WasReset
               \/ Succeeded /\ FlagOn(LastGroups, "clear_previous")

\* disable_previous and enable_previous with a `set` entry for a new group:
\* the old name stays, the new one is added.
C19_Witness ==
    /\ Succeeded
    /\ FlagOn(LastGroups, "disable_previous")
    /\ FlagOn(LastGroups, "enable_previous")
    /\ ~FlagOn(LastGroups, "clear_previous")
    /\ LastSet = PyDict(<< <<"g", PyNone>>, <<"h", PyBool(FALSE)>> >>)
    /\ DOMAIN last.pre["groups"] = {"g"}
    /\ DOMAIN GLOBAL_SETTINGS["groups"] = {"g", "h"}

\* The key the last call failed on: the first iterated key whose branch
\* raises, and the state the keys iterated before it produce.
Raises(key, value) == ApplyOption(GlobalSettingsObject, key, value).err # NoError
FailingIndex ==
    LET items == LastIterated.items
    IN  CHOOSE i \in 1..Len(items) :
            /\ Raises(items[i][1], items[i][2])
            /\ \A j \in 1..(i - 1) : ~Raises(items[j][1], items[j][2])
FailingKey == LastIterated.items[FailingIndex][1]
BeforeFailing == OptionsLoop(last.pre, SubSeq(LastIterated.items, 1, FailingIndex - 1), 1)

C18_OptionFrame ==
    Succeeded =>
        /\ Unset(Opt(last.options, "enabled")) =>
               GLOBAL_SETTINGS["enabled"] = last.pre["enabled"]
        /\ Unset(Opt(last.options, "mode")) =>
               GLOBAL_SETTINGS["mode"] = last.pre["mode"]
        /\ LastGroups = Absent =>
               GLOBAL_SETTINGS["groups"] = last.pre["groups"]
        /\ Unset(Opt(LastGroups, "default")) =>
               GLOBAL_SETTINGS["default"] = last.pre["default"]
        /\ DOMAIN GLOBAL_SETTINGS = DOMAIN last.pre
        /\ \A key \in DOMAIN last.pre \ DefaultValueKeys :
               GLOBAL_SETTINGS[key] = last.pre[key]

\* A call that carries only enabled, on a state where every other field is
\* off its default: enabled alone changes.
C18_Witness ==
    /\ Succeeded
    /\ last.op = "config"
    /\ last.options = PyDict(<< <<"enabled", PyBool(FALSE)>> >>)
    /\ last.pre["enabled"]
    /\ last.pre["mode"] = "contravariant"
    /\ ~last.pre["default"]
    /\ last.pre["groups"] = ("g" :> TRUE)
    /\ "stash" \in DOMAIN last.pre
    /\ GLOBAL_SETTINGS = [last.pre EXCEPT !["enabled"] = FALSE]

\* What Settings(enabled=self._enabled, group=self.group), constructed now,
\* reads from the settings G.
FreshReads(G, self) ==
    LET fresh == Settings__init__(self._enabled, PyStr(self.group))
    IN  [enabled |-> Settings_enabled(G, fresh),
         mode |-> Settings_mode(G),
         covariant |-> Settings_covariant(G),
         contravariant |-> Settings_contravariant(G)]

\* C16: whatever calls were made since a Settings object was constructed,
\* its enabled, mode, covariant and contravariant read the values a new
\* object with the same group and the same override reads at that moment.
C16_NoStaleness ==
    last.op = "read" =>
        \A f \in {"enabled", "mode", "covariant", "contravariant"} :
            last.value[f] = FreshReads(GLOBAL_SETTINGS, views[last.self])[f]

\* A Settings object for group g without an override, read after later
\* calls turned the group on and changed the mode.
C16_Witness ==
    /\ last.op = "read"
    /\ reconfigured
    /\ views[last.self] = [group |-> "g", _enabled |-> PyNone]
    /\ GLOBAL_SETTINGS["enabled"]
    /\ GLOBAL_SETTINGS["groups"] = ("g" :> TRUE)
    /\ GLOBAL_SETTINGS["mode"] = "bivariant"
    /\ last.value.enabled
    /\ last.value.mode = "bivariant"
    /\ last.value.covariant /\ last.value.contravariant

\* C17: constructing a Settings object, reading it and assigning its
\* enabled leave the settings object as it was; a read changes no Settings
\* object, a construction adds one, and an assignment changes the override
\* of the object assigned to and nothing else, so that every other object
\* reads enabled as before.
C17_ViewsWriteNothing ==
    [][last'.op \in {"Settings", "enabled.setter", "read"} =>
          /\ GLOBAL_SETTINGS' = GLOBAL_SETTINGS
          /\ last'.op = "read" => views' = views
          /\ last'.op = "Settings" =>
                 /\ Len(views') = Len(views) + 1
                 /\ SubSeq(views', 1, Len(views)) = views
          /\ last'.op = "enabled.setter" =>
                 /\ Len(views') = Len(views)
                 /\ views'[last'.self].group = views[last'.self].group
                 /\ views'[last'.self]._enabled = last'.value
                 /\ \A j \in 1..Len(views) : j # last'.self =>
                        /\ views'[j] = views[j]
                        /\ Settings_enabled(GLOBAL_SETTINGS', views'[j])
                               = Settings_enabled(GLOBAL_SETTINGS, views[j])]_vars

\* Two Settings objects for group g, which is on: the first one is assigned
\* False and reads off, the second one still reads on.
C17_Witness ==
    /\ last.op = "enabled.setter"
    /\ last.self = 1
    /\ views = <<[group |-> "g", _enabled |-> PyBool(FALSE)],
                 [group |-> "g", _enabled |-> PyNone]>>
    /\ GLOBAL_SETTINGS = last.pre
    /\ GLOBAL_SETTINGS["enabled"]
    /\ GLOBAL_SETTINGS["groups"] = ("g" :> TRUE)
    /\ ~Settings_enabled(GLOBAL_SETTINGS, views[1])
    /\ Settings_enabled(GLOBAL_SETTINGS, views[2])

====
